---- MODULE Spec2Model ----
(***************************************************************************)
(* Model of PanelManagerContextProvider (src/index.tsx): the registry of   *)
(* open functions, the stack of panel executors, the closing panel and the *)
(* list of panels handed to the renderer.                                  *)
(*                                                                         *)
(* One action is one call of register, of a registered open function, of a *)
(* panel's close or of dismiss, together with the render and the effect    *)
(* that follow it.  Every state updater is applied once per call (the      *)
(* production build of the host framework).                                *)
(***************************************************************************)
EXTENDS Integers, Sequences, FiniteSets, TLC

\* ------------------------------------------------------------------ bounds
MaxOpens == 3

\* ------------------------------------------------------------- JS values
Undefined == "undefined"
Null == "null"

\* the values of JavaScript that || takes for false, as far as they occur
Falsy == {"undefined", "null", "false", "0", "''"}

\* the values a panel passes to close: close() passes undefined
CloseValues == {"undefined", "false", "0", "''", "true"}

\* the props a caller passes to an open function
Props == {"props"}

\* ------------------------------------------------------------- producers
\* A producer is a registerPanelFunction; the element it returns carries the
\* key React stored on it ('' + key, or null when the JSX has no key).
Producers == {"pA1", "pA2", "pB", "pCtor", "pNone", "pEmpty"}

ProducerKey(p) ==
  CASE p = "pA1" -> "a"
    [] p = "pA2" -> "a"
    [] p = "pB" -> "b"
    [] p = "pCtor" -> "constructor"
    [] p = "pNone" -> Null
    [] p = "pEmpty" -> ""

\* registerPanelFunction({close, dismiss, props}): the element of one
\* invocation; inst tells the invocations (and their bound closes) apart
Produce(p, inst, props) ==
  [key |-> ProducerKey(p), producer |-> p, inst |-> inst, props |-> props]

\* ---------------------------------------------------------------- state
VARIABLES
  panelRegistry,       \* own properties of the registry object: key -> fn
  openFns,             \* the open closures created so far: fn -> [key, producer]
  panelExecutorStack,  \* sequence of [executor, panel]
  closingPanel,        \* an element, or NoPanel while undefined
  panels,              \* what the effect handed to the renderer
  promises,            \* promise id -> [state, value, resolves, rejects, parents]
  placeholderMade,     \* some register call has built a placeholder close
  crashed,             \* an updater threw: the provider is gone
  last                 \* the call that led to this state

vars == <<panelRegistry, openFns, panelExecutorStack, closingPanel, panels,
          promises, placeholderMade, crashed, last>>

\* function references
NoFn == 0
ObjectCtor == -1

\* callers of close
Placeholder == 0

NoCall ==
  [op |-> "none", who |-> 0, producer |-> "", arg |-> "", settled |-> {},
   threw |-> FALSE, ret |-> 0, depth |-> 0]

\* useState() without an argument: the closing panel is undefined at first
NoPanel == [key |-> Undefined, producer |-> "", inst |-> 0, props |-> ""]

\* useMemo(() => ({}), []): no own property
EmptyRegistry == [k \in {} |-> NoFn]

\* --------------------------------------------------------------- helpers
\* panelRegistry[key] on an object literal: own properties first, then the
\* ones every object inherits
InheritedKeys == {"constructor"}

Lookup(registry, key) ==
  IF key \in DOMAIN registry THEN registry[key]
  ELSE IF key \in InheritedKeys THEN ObjectCtor
  ELSE NoFn

\* result || null
OrNullNullish(result) == IF result \in {Undefined, Null} THEN Null ELSE result

OrNull(result) == IF result \in Falsy THEN Null ELSE result

\* executor.resolve(value): settles a pending promise, nothing otherwise
ResolveRejectsNull(ps, id, value) ==
  LET p == ps[id] IN
  [ps EXCEPT ![id] =
     IF p.state # "pending" THEN p
     ELSE IF value = Null
       THEN [p EXCEPT !.state = "rejected", !.rejects = p.rejects + 1]
       ELSE [p EXCEPT !.state = "fulfilled", !.value = value, !.resolves = p.resolves + 1]]

Resolve(ps, id, value) ==
  LET p == ps[id] IN
  [ps EXCEPT ![id] =
     IF p.state = "pending"
       THEN [p EXCEPT !.state = "fulfilled", !.value = value, !.resolves = p.resolves + 1]
       ELSE [p EXCEPT !.resolves = p.resolves + 1]]

RECURSIVE ResolveAll(_, _, _)
ResolveAll(ps, ids, value) ==
  IF ids = <<>> THEN ps
  ELSE ResolveAll(Resolve(ps, Head(ids), value), Tail(ids), value)

Executors(stack) == [i \in 1..Len(stack) |-> stack[i].executor]

\* the effect of lines 110-115
ActivePanelsTopOnly(stack, closing) ==
  IF Len(stack) # 0 THEN <<stack[Len(stack)].panel>>
  ELSE <<closing>>

ActivePanels(stack, closing) ==
  IF Len(stack) # 0 THEN [i \in 1..Len(stack) |-> stack[i].panel]
  ELSE <<closing>>

\* ------------------------------------------------------------------ Init
Init ==
  /\ panelRegistry = EmptyRegistry
  /\ openFns = <<>>
  /\ panelExecutorStack = <<>>
  /\ closingPanel = NoPanel
  /\ panels = ActivePanels(<<>>, NoPanel)
  /\ promises = <<>>
  /\ placeholderMade = FALSE
  /\ crashed = FALSE
  /\ last = NoCall

\* -------------------------------------------------------------- register
\* !panel.key
MissingKeyNever(key) == FALSE

MissingKey(key) == key \in {Null, ""}

\* panelRegistry[panel.key] || ((props) => open(panel.key, registerPanelFunction, props))
OpenPanelFunctionFresh(registry, key, fresh) == fresh

OpenPanelFunction(registry, key, fresh) ==
  IF Lookup(registry, key) # NoFn THEN Lookup(registry, key) ELSE fresh

registerShowsPlaceholder(registerPanelFunction) ==
  LET panel == Produce(registerPanelFunction, Placeholder, "{}")
      fresh == Len(openFns) + 1
      openPanelFunction == OpenPanelFunction(panelRegistry, panel.key, fresh)
  IN
  /\ ~crashed
  /\ placeholderMade' = TRUE
  /\ closingPanel' = panel
  /\ panels' = ActivePanels(panelExecutorStack, panel)
  /\ IF MissingKey(panel.key)
       THEN /\ last' = [NoCall EXCEPT !.op = "register", !.producer = registerPanelFunction,
                                      !.arg = panel.key, !.threw = TRUE,
                                      !.depth = Len(panelExecutorStack)]
            /\ UNCHANGED <<panelRegistry, openFns>>
       ELSE /\ openFns' = IF openPanelFunction = fresh
                            THEN Append(openFns, [key |-> panel.key,
                                                  producer |-> registerPanelFunction])
                            ELSE openFns
            /\ panelRegistry' =
                 [k \in DOMAIN panelRegistry \cup {panel.key} |->
                    IF k = panel.key THEN openPanelFunction ELSE panelRegistry[k]]
            /\ last' = [NoCall EXCEPT !.op = "register", !.producer = registerPanelFunction,
                                      !.arg = panel.key, !.ret = openPanelFunction,
                                      !.depth = Len(panelExecutorStack)]
  /\ UNCHANGED <<panelExecutorStack, promises, crashed>>

register(registerPanelFunction) ==
  LET panel == Produce(registerPanelFunction, Placeholder, "{}")
      fresh == Len(openFns) + 1
      openPanelFunction == OpenPanelFunction(panelRegistry, panel.key, fresh)
  IN
  /\ ~crashed
  /\ placeholderMade' = TRUE
  /\ IF MissingKey(panel.key)
       THEN /\ last' = [NoCall EXCEPT !.op = "register", !.producer = registerPanelFunction,
                                      !.arg = panel.key, !.threw = TRUE,
                                      !.depth = Len(panelExecutorStack)]
            /\ UNCHANGED <<panelRegistry, openFns>>
       ELSE /\ openFns' = IF openPanelFunction = fresh
                            THEN Append(openFns, [key |-> panel.key,
                                                  producer |-> registerPanelFunction])
                            ELSE openFns
            /\ panelRegistry' =
                 [k \in DOMAIN panelRegistry \cup {panel.key} |->
                    IF k = panel.key THEN openPanelFunction ELSE panelRegistry[k]]
            /\ last' = [NoCall EXCEPT !.op = "register", !.producer = registerPanelFunction,
                                      !.arg = panel.key, !.ret = openPanelFunction,
                                      !.depth = Len(panelExecutorStack)]
  /\ UNCHANGED <<panelExecutorStack, closingPanel, panels, promises, crashed>>

\* ------------------------------------------------------------------ open
\* if (!stack.length) setClosingPanel(panel)
SeedsClosingPanelAlways(stack) == TRUE

SeedsClosingPanel(stack) == Len(stack) = 0

\* [...stack, panelExecutor]
PushedReuse(stack, panelExecutor) ==
  IF \E i \in 1..Len(stack) : stack[i].panel.key = panelExecutor.panel.key
    THEN [i \in 1..Len(stack) |->
            IF stack[i].panel.key = panelExecutor.panel.key THEN panelExecutor ELSE stack[i]]
    ELSE Append(stack, panelExecutor)

Pushed(stack, panelExecutor) == Append(stack, panelExecutor)

open(key, registerPanelFunction, props) ==
  LET executor == Len(promises) + 1
      panel == Produce(registerPanelFunction, executor, props)
      stack == panelExecutorStack
  IN
  /\ promises' = Append(promises,
                        [state |-> "pending", value |-> Undefined, resolves |-> 0,
                         rejects |-> 0,
                         parents |-> {stack[i].executor : i \in 1..Len(stack)}])
  /\ panelExecutorStack' = Pushed(stack, [executor |-> executor, panel |-> panel])
  /\ closingPanel' = IF SeedsClosingPanel(stack) THEN panel ELSE closingPanel
  /\ panels' = ActivePanels(panelExecutorStack', closingPanel')
  /\ last' = [NoCall EXCEPT !.op = "open", !.producer = registerPanelFunction,
                            !.arg = key, !.ret = executor, !.depth = Len(stack)]
  /\ UNCHANGED <<panelRegistry, openFns, placeholderMade, crashed>>

\* a caller invokes a function register returned to it
InvokeOpenFunction(fn, props) ==
  /\ ~crashed
  /\ \E k \in DOMAIN panelRegistry : panelRegistry[k] = fn
  /\ fn \in DOMAIN openFns
  /\ Len(promises) < MaxOpens
  /\ open(openFns[fn].key, openFns[fn].producer, props)

\* the function register returned for an inherited key is Object itself:
\* Object(props) opens nothing and returns no promise
InvokeInherited(props) ==
  /\ ~crashed
  /\ \E k \in DOMAIN panelRegistry : panelRegistry[k] = ObjectCtor
  /\ last' = [NoCall EXCEPT !.op = "object", !.depth = Len(panelExecutorStack)]
  /\ UNCHANGED <<panelRegistry, openFns, panelExecutorStack, closingPanel, panels,
                 promises, placeholderMade, crashed>>

\* ----------------------------------------------------------------- close
\* stack.pop(): the index of the entry taken
PoppedFirst(stack) == 1

Popped(stack) == Len(stack)

\* the closes that exist: one per element a producer has built
Closers == (IF placeholderMade THEN {Placeholder} ELSE {}) \cup DOMAIN promises

close(who, result) ==
  LET stack == panelExecutorStack IN
  /\ ~crashed
  /\ who \in Closers
  /\ IF Len(stack) = 0
       THEN \* pop() yields undefined; reading .executor of it throws in the updater
            /\ crashed' = TRUE
            /\ last' = [NoCall EXCEPT !.op = "close", !.who = who, !.arg = result,
                                      !.threw = TRUE]
            /\ UNCHANGED <<panelExecutorStack, closingPanel, panels, promises>>
       ELSE LET i == Popped(stack)
                keyExecutor == stack[i]
            IN
            /\ promises' = Resolve(promises, keyExecutor.executor, OrNull(result))
            /\ panelExecutorStack' = SubSeq(stack, 1, i - 1) \o SubSeq(stack, i + 1, Len(stack))
            /\ panels' = ActivePanels(panelExecutorStack', closingPanel)
            /\ last' = [NoCall EXCEPT !.op = "close", !.who = who, !.arg = result,
                                      !.settled = {keyExecutor.executor},
                                      !.depth = Len(stack)]
            /\ UNCHANGED <<closingPanel, crashed>>
  /\ UNCHANGED <<panelRegistry, openFns, placeholderMade>>

\* --------------------------------------------------------------- dismiss
\* stack.forEach(...): the entries resolved, in order
DismissedTopOnly(stack) == IF Len(stack) = 0 THEN <<>> ELSE <<stack[Len(stack)].executor>>

DismissedTwice(stack) == Executors(stack) \o Executors(stack)

DismissedEverOpened(stack) == [i \in 1..Len(promises) |-> i]

Dismissed(stack) == Executors(stack)

dismiss ==
  LET stack == panelExecutorStack IN
  /\ ~crashed
  /\ promises' = ResolveAll(promises, Dismissed(stack), Null)
  /\ panelExecutorStack' = <<>>
  /\ panels' = ActivePanels(<<>>, closingPanel)
  /\ last' = [NoCall EXCEPT !.op = "dismiss", !.depth = Len(stack),
                            !.settled = {Dismissed(stack)[i] : i \in 1..Len(Dismissed(stack))}]
  /\ UNCHANGED <<panelRegistry, openFns, closingPanel, placeholderMade, crashed>>

\* ------------------------------------------------------------------ Next
Next ==
  \/ \E p \in Producers : register(p)
  \/ \E fn \in DOMAIN openFns, props \in Props : InvokeOpenFunction(fn, props)
  \/ \E props \in Props : InvokeInherited(props)
  \/ \E who \in Closers, result \in CloseValues : close(who, result)
  \/ dismiss

Spec == Init /\ [][Next]_vars

\* The calls that bear on the settling of futures, over fewer producers and
\* close values, with a dismiss that is not put off forever.
FairProducers == {"pA1", "pB", "pNone"}

FairCloseValues == {"undefined", "true"}

FairNext ==
  \/ \E p \in FairProducers : register(p)
  \/ \E fn \in DOMAIN openFns, props \in Props : InvokeOpenFunction(fn, props)
  \/ \E who \in Closers, result \in FairCloseValues : close(who, result)
  \/ dismiss

FairSpec == Init /\ [][FairNext]_vars /\ WF_vars(dismiss)

\* ---------------------------------------------------------------- claims
Depth == Len(panelExecutorStack)

IsPending(id) == promises[id].state = "pending"

ClosedOk == last.op = "close" /\ ~last.threw

\* C1: a call of panel P's bound close settles no future other than P's,
\* whether or not P is the top of the stack or still on it.
C1_CloseSettlesOnlyOwnFuture ==
  (ClosedOk /\ last.who # Placeholder) => last.settled \subseteq {last.who}

\* C2: on a stack of depth n >= 1, close removes exactly the top entry and
\* settles exactly its future; the n-1 entries below keep their order and
\* elements, and their futures stay pending.
C2_CloseRemovesExactlyTop ==
  [][(last'.op = "close" /\ ~last'.threw) =>
       LET n == Len(panelExecutorStack)
           top == panelExecutorStack[n].executor
       IN
       /\ n >= 1
       /\ panelExecutorStack' = SubSeq(panelExecutorStack, 1, n - 1)
       /\ promises[top].state = "pending"
       /\ promises'[top].state = "fulfilled"
       /\ \A id \in DOMAIN promises : id # top => promises'[id] = promises[id]
       /\ \A i \in 1..(n - 1) :
            promises'[panelExecutorStack[i].executor].state = "pending"]_vars

C2_Witness ==
  /\ ClosedOk
  /\ last.depth = 2
  /\ Depth = 1
  /\ IsPending(panelExecutorStack[1].executor)
  /\ \E id \in last.settled : promises[id].state = "fulfilled"

\* C3: close(value) resolves the top entry's future with value when value is
\* truthy and with null when it is falsy or absent; no future is ever
\* resolved with undefined.
C3_CloseValueOrNull ==
  /\ ClosedOk =>
       \A id \in last.settled :
         /\ promises[id].state = "fulfilled"
         /\ promises[id].value =
              (IF last.arg \in {"undefined", "false", "0", "''"} THEN "null" ELSE last.arg)
  /\ \A id \in DOMAIN promises :
       promises[id].state = "fulfilled" => promises[id].value # "undefined"

C3_Witness ==
  /\ ClosedOk
  /\ last.arg = "0"
  /\ \E id \in last.settled : promises[id].value = "null"
  /\ \E id \in DOMAIN promises : promises[id].value = "true"

\* C4: dismiss on a stack of any depth n >= 0 resolves each of the n pending
\* futures with null and leaves the stack empty in the same step.
C4_DismissResolvesAllWithNull ==
  [][last'.op = "dismiss" =>
       /\ panelExecutorStack' = <<>>
       /\ \A i \in 1..Len(panelExecutorStack) :
            LET id == panelExecutorStack[i].executor IN
            /\ promises[id].state = "pending"
            /\ promises'[id].state = "fulfilled"
            /\ promises'[id].value = "null"
       /\ \A id \in DOMAIN promises :
            promises[id].state = "fulfilled" => promises'[id] = promises[id]
       /\ \A id \in DOMAIN promises' : promises'[id].state = "fulfilled"]_vars

C4_Witness ==
  /\ last.op = "dismiss"
  /\ last.depth = 3
  /\ Depth = 0
  /\ Cardinality({id \in DOMAIN promises : promises[id].value = "null"}) = 3

\* C5 as stated: if A was opened before B and B's future is pending, then
\* A's future is pending too.
C5_OpenedBeforeStaysPending ==
  \A a, b \in DOMAIN promises : (a < b /\ IsPending(b)) => IsPending(a)

\* C5 amended: if B was opened while A was on the stack (B above A) and B's
\* future is pending, then A's future is pending too.
C5_ParentPendingWhileChildPending ==
  \A a, b \in DOMAIN promises :
    (a \in promises[b].parents /\ IsPending(b)) => IsPending(a)

C5_Witness ==
  \E a, b, c \in DOMAIN promises :
    /\ a \in promises[b].parents
    /\ a \in promises[c].parents
    /\ ~IsPending(b)
    /\ IsPending(c)
    /\ IsPending(a)

\* C6: a key once registered keeps its open function: no step replaces or
\* removes a registry entry, and every register call yielding key k returns
\* the function stored for k, which is the one its first registration
\* created.
C6_RegistrationIdempotent ==
  [][/\ \A k \in DOMAIN panelRegistry :
          k \in DOMAIN panelRegistry' /\ panelRegistry'[k] = panelRegistry[k]
     /\ (last'.op = "register" /\ ~last'.threw) =>
          /\ last'.arg \in DOMAIN panelRegistry'
          /\ last'.ret = panelRegistry'[last'.arg]
          /\ last'.arg \in DOMAIN panelRegistry => last'.ret = panelRegistry[last'.arg]]_vars

C6_Witness ==
  /\ last.op = "register"
  /\ last.producer = "pA2"
  /\ last.ret \in DOMAIN openFns
  /\ openFns[last.ret].producer = "pA1"
  /\ Depth >= 1
  /\ \E id \in DOMAIN promises : ~IsPending(id)

\* C7: register with a producer whose element carries no key throws and
\* stores nothing: registry, stack, closing panel, panels and promises are
\* as before the call.
C7_RegisterWithoutKeyThrows ==
  [][(last'.op = "register" /\ last'.arg = "null") =>
       /\ last'.threw
       /\ last'.ret = NoFn
       /\ UNCHANGED <<panelRegistry, openFns, panelExecutorStack, closingPanel,
                      panels, promises>>]_vars

C7_Witness ==
  /\ last.op = "register"
  /\ last.producer = "pNone"
  /\ last.threw
  /\ Depth >= 1
  /\ DOMAIN panelRegistry # {}

\* C8: every call of open appends exactly one entry as the new top, leaves
\* the entries below and every earlier future as they were, and returns a
\* pending future that is none of the earlier ones, also when the key is on
\* the stack already or was opened and closed before; the entries of the
\* stack never share a future.
C8_OpenAppendsFreshEntry ==
  [][last'.op = "open" =>
       LET n == Len(panelExecutorStack) IN
       /\ Len(panelExecutorStack') = n + 1
       /\ SubSeq(panelExecutorStack', 1, n) = panelExecutorStack
       /\ panelExecutorStack'[n + 1].executor = last'.ret
       /\ panelExecutorStack'[n + 1].panel.key = last'.arg
       /\ last'.ret \notin DOMAIN promises
       /\ last'.ret \in DOMAIN promises'
       /\ promises'[last'.ret].state = "pending"
       /\ \A id \in DOMAIN promises : promises'[id] = promises[id]
       /\ \A i, j \in 1..(n + 1) :
            i # j => panelExecutorStack'[i].executor # panelExecutorStack'[j].executor]_vars

C8_Witness ==
  /\ last.op = "open"
  /\ Depth = 2
  /\ panelExecutorStack[1].panel.key = panelExecutorStack[2].panel.key
  /\ IsPending(panelExecutorStack[1].executor)
  /\ IsPending(panelExecutorStack[2].executor)
  /\ \E id \in DOMAIN promises : ~IsPending(id)

\* C9: close called while no panel is on the stack is a no-op or a reported
\* error, never a crash: the provider stays usable.
C9_EmptyCloseDoesNotCrash ==
  (last.op = "close" /\ last.depth = 0) => ~crashed

\* C10: when a close empties the stack, the closing panel is the element of
\* the entry that close removed, and while the stack stays empty register
\* and dismiss calls leave the closing panel as it is.
C10_ClosingPanelIsLastRemoved ==
  [][/\ (last'.op = "close" /\ ~last'.threw /\ Len(panelExecutorStack') = 0) =>
          closingPanel' = panelExecutorStack[Len(panelExecutorStack)].panel
     /\ (Len(panelExecutorStack) = 0 /\ last'.op \in {"register", "dismiss"}) =>
          closingPanel' = closingPanel]_vars

C10_Witness ==
  /\ ClosedOk
  /\ Depth = 0
  /\ last.depth = 1
  /\ closingPanel.inst \in last.settled
  /\ \E id \in DOMAIN promises : closingPanel.inst \in promises[id].parents

\* C11: when dismiss empties a stack of depth n >= 1, the closing panel
\* afterwards is the element of the entry that was on top before the dismiss.
C11_DismissKeepsTopAsClosingPanel ==
  [][(last'.op = "dismiss" /\ Len(panelExecutorStack) >= 1) =>
       closingPanel' = panelExecutorStack[Len(panelExecutorStack)].panel]_vars

\* C12: a future is pending if and only if its entry is on the stack: the
\* pending futures are exactly the executors of the stack, one per entry.
C12_PendingIffOnStack ==
  /\ {id \in DOMAIN promises : IsPending(id)} =
       {panelExecutorStack[i].executor : i \in 1..Depth}
  /\ Cardinality({id \in DOMAIN promises : IsPending(id)}) = Depth

C12_Witness ==
  /\ last.op = "dismiss"
  /\ last.depth = 2
  /\ Depth = 0
  /\ Len(promises) = 3
  /\ \A id \in DOMAIN promises : ~IsPending(id)

\* C13: resolve is invoked at most once on every future's executor, and
\* exactly once on a settled one.
C13_ResolvedAtMostOnce ==
  \A id \in DOMAIN promises :
    /\ promises[id].resolves <= 1
    /\ promises[id].resolves = 1 <=> ~IsPending(id)

C13_Witness ==
  /\ last.op = "dismiss"
  /\ last.depth >= 1
  /\ \E id \in DOMAIN promises : id \notin last.settled /\ promises[id].resolves = 1
  /\ \E id \in last.settled : promises[id].resolves = 1

\* C14: no future is ever rejected: each is pending or resolved with a
\* value or null, and reject is never invoked.
C14_NeverRejected ==
  \A id \in DOMAIN promises :
    /\ promises[id].state \in {"pending", "fulfilled"}
    /\ promises[id].rejects = 0
    /\ promises[id].state = "fulfilled" => promises[id].value \in {"null", "true"}

C14_Witness ==
  /\ last.op = "dismiss"
  /\ last.depth = 2
  /\ \A id \in last.settled : promises[id].state = "fulfilled" /\ promises[id].value = "null"
  /\ \E id \in DOMAIN promises : promises[id].value = "true"

\* C15: after the recomputation of the visible panels, the list is, for a
\* non-empty stack, the elements of all stack entries in stack order, and,
\* for an empty stack with a closing panel set, that one element.
C15_PanelsFollowStack ==
  /\ Depth >= 1 =>
       /\ Len(panels) = Depth
       /\ \A i \in 1..Depth : panels[i] = panelExecutorStack[i].panel
  /\ (Depth = 0 /\ closingPanel # NoPanel) => panels = <<closingPanel>>

C15_Witness ==
  /\ Depth = 3
  /\ Len(panels) = 3
  /\ panels[1].inst < panels[2].inst
  /\ panels[2].inst < panels[3].inst
  /\ \A i \in 1..3 : panels[i] = panelExecutorStack[i].panel

C15_WitnessEmpty ==
  /\ Depth = 0
  /\ closingPanel # NoPanel
  /\ panels = <<closingPanel>>

\* C16: while the stack is empty and no panel has ever been opened, the
\* visible list has no element, not even an undefined one.
C16_NothingVisibleBeforeFirstOpen ==
  (Depth = 0 /\ Len(promises) = 0) => Len(panels) = 0

\* C17: register changes neither the stack nor the closing panel nor the
\* visible panels nor any future, on a first registration, a later one and
\* a failed one alike: the placeholder element is used for its key only.
C17_RegisterLeavesPanelsAlone ==
  [][last'.op = "register" =>
       /\ UNCHANGED <<panelExecutorStack, closingPanel, panels, promises>>
       /\ \A i \in 1..Len(panels') : panels'[i].inst # Placeholder \/ panels'[i] = NoPanel
       /\ closingPanel'.props # "{}"]_vars

C17_Witness ==
  /\ last.op = "register"
  /\ ~last.threw
  /\ last.ret \in DOMAIN openFns
  /\ openFns[last.ret].producer # last.producer
  /\ Depth = 1
  /\ closingPanel = panelExecutorStack[1].panel
  /\ \E id \in DOMAIN promises : ~IsPending(id)

\* C18: an open function stays bound to the producer of the first
\* registration of its key: closures are never rebound, a registry entry is
\* never replaced, a first registration binds the registering producer, and
\* every open under a key builds its element with the producer its registry
\* entry is bound to.
C18_OpenUsesFirstProducer ==
  [][/\ \A fn \in DOMAIN openFns : fn \in DOMAIN openFns' /\ openFns'[fn] = openFns[fn]
     /\ \A k \in DOMAIN panelRegistry :
          k \in DOMAIN panelRegistry' /\ panelRegistry'[k] = panelRegistry[k]
     /\ (last'.op = "register" /\ ~last'.threw /\ last'.arg \notin DOMAIN panelRegistry
         /\ last'.ret \in DOMAIN openFns') =>
          openFns'[last'.ret] = [key |-> last'.arg, producer |-> last'.producer]
     /\ last'.op = "open" =>
          /\ last'.arg \in DOMAIN panelRegistry
          /\ panelRegistry[last'.arg] \in DOMAIN openFns
          /\ panelExecutorStack'[Len(panelExecutorStack')].panel.producer =
               openFns[panelRegistry[last'.arg]].producer
          /\ last'.producer = openFns[panelRegistry[last'.arg]].producer]_vars

C18_Witness ==
  /\ last.op = "register"
  /\ last.producer = "pA2"
  /\ last.ret \in DOMAIN openFns
  /\ openFns[last.ret].producer = "pA1"
  /\ panelRegistry["a"] = last.ret
  /\ Depth = 2
  /\ \A i \in 1..2 : panelExecutorStack[i].panel.producer = "pA1"

\* C19: dismiss on an empty stack settles no future and leaves the stack
\* empty and the closing panel, the visible panels and the registry as they
\* were.
C19_DismissOnEmptyChangesNothing ==
  [][(last'.op = "dismiss" /\ Len(panelExecutorStack) = 0) =>
       /\ panelExecutorStack' = <<>>
       /\ UNCHANGED <<promises, closingPanel, panels, panelRegistry, openFns, crashed>>]_vars

C19_Witness ==
  /\ last.op = "dismiss"
  /\ last.depth = 0
  /\ last.settled = {}
  /\ Depth = 0
  /\ closingPanel # NoPanel
  /\ Len(promises) >= 2

====
